---- MODULE Spec2Model ----
(***************************************************************************)
(* image2mzm.py: an image is resized to a grid of character cells,         *)
(* quantized against a 16-colour palette repeated 16 times, every cell is  *)
(* reduced to a (char, color) pair from its histogram, and the pairs are   *)
(* written after a 20-byte MZM header.                                     *)
(*                                                                         *)
(* Python values are modelled as follows: a list is a sequence (Python     *)
(* index i is TLA+ index i+1), None is the string "None", a raised         *)
(* exception is its class name in err.                                     *)
(***************************************************************************)
EXTENDS Integers, Sequences, FiniteSets

VARIABLES pc, args, mzx_pal, pil_pal, mzx_chars, table, newim, layer, cx, cy,
          hist, frame, out, err

vars == <<pc, args, mzx_pal, pil_pal, mzx_chars, table, newim, layer, cx, cy,
          hist, frame, out, err>>

(***************************************************************************)
(* Bounds of the model.                                                    *)
(***************************************************************************)
\* grid width and height (args.width, args.height) range over 0..MaxGrid
MaxGrid == 2
\* cell width and height (args.char_width, args.char_height): 0..MaxCell
MaxCell == 2
\* the resized image has at most MaxPixels pixels
MaxPixels == 4
\* the quantizer's output indices are 17*i for i in 0..MaxSlot
MaxSlot == 1
\* in the reducer's own specification a bin holds at most MaxCount pixels
MaxCount == 5
\* ... and the gradient has 1..MaxGradLen glyphs
MaxGradLen == 5

(***************************************************************************)
(* Generic list helpers.                                                   *)
(***************************************************************************)
RECURSIVE Flatten(_)
Flatten(ss) == IF ss = <<>> THEN <<>> ELSE Head(ss) \o Flatten(Tail(ss))

RECURSIVE Repeat(_, _)
\* Python's  lst * k
Repeat(lst, k) == IF k <= 0 THEN <<>> ELSE lst \o Repeat(lst, k - 1)

RECURSIVE Pow2(_)
Pow2(k) == IF k <= 0 THEN 1 ELSE 2 * Pow2(k - 1)

(***************************************************************************)
(* Palette.                                                                *)
(***************************************************************************)
DEFAULT_PALETTE ==
    << <<0, 0, 0>>, <<0, 0, 42>>, <<0, 42, 0>>, <<0, 42, 42>>, <<42, 0, 0>>,
       <<42, 0, 42>>, <<42, 21, 0>>, <<42, 42, 42>>, <<21, 21, 21>>,
       <<21, 21, 63>>, <<21, 63, 21>>, <<21, 63, 63>>, <<63, 21, 21>>,
       <<63, 21, 63>>, <<63, 63, 21>>, <<63, 63, 63>> >>

\* f.read(48): at most the first 48 bytes of the file
read48(bytes) == SubSeq(bytes, 1, IF Len(bytes) < 48 THEN Len(bytes) ELSE 48)

\* a loader that reads missing bytes as 0
palette_of_bytes_mut(k) ==
    [ok |-> TRUE, err |-> "none",
     pal |-> [i \in 1..16 |->
                [j \in 1..3 |-> IF 3 * (i - 1) + j <= Len(k)
                                THEN k[3 * (i - 1) + j] ELSE 0]]]
\* the loop of get_palette over k = f.read(48): the 16 triples, or IndexError
\* as soon as k[j], k[j+1] or k[j+2] is past the end of k
palette_of_bytes(k) ==
    IF \E i \in 0..15 : 3 * i + 2 >= Len(k)
    THEN [ok |-> FALSE, err |-> "IndexError", pal |-> <<>>]
    ELSE [ok |-> TRUE, err |-> "none",
          pal |-> [i \in 1..16 |->
                     <<k[3 * (i - 1) + 1], k[3 * (i - 1) + 2], k[3 * (i - 1) + 3]>>]]

expand_mut(v) == v * 4
\* lambda x: (x*4) + (x//16)
expand(v) == (v * 4) + (v \div 16)

make_8bit_palette(pal6bit) ==
    LET flat == Flatten(pal6bit) IN [i \in 1..Len(flat) |-> expand(flat[i])]

putpalette_data_mut(pal) == Flatten([i \in 1..Len(pal) |-> Repeat(<<pal[i]>>, 16)])
\* pil_pal * 16
putpalette_data(pal) == Repeat(pal, 16)

(***************************************************************************)
(* Glyph gradient: args.chars is a string, here a sequence of characters.  *)
(***************************************************************************)
Digits == {"0", "1", "2", "3", "4", "5", "6", "7", "8", "9"}

DigitVal(c) ==
    CASE c = "0" -> 0 [] c = "1" -> 1 [] c = "2" -> 2 [] c = "3" -> 3
      [] c = "4" -> 4 [] c = "5" -> 5 [] c = "6" -> 6 [] c = "7" -> 7
      [] c = "8" -> 8 [] OTHER -> 9

RECURSIVE split(_, _)
\* str.split(sep): the pieces between the separators; one piece (possibly
\* empty) when there is no separator
split(s, sep) ==
    IF \A i \in 1..Len(s) : s[i] # sep THEN <<s>>
    ELSE LET i == CHOOSE j \in 1..Len(s) :
                      s[j] = sep /\ \A h \in 1..(j - 1) : s[h] # sep
         IN <<SubSeq(s, 1, i - 1)>> \o split(SubSeq(s, i + 1, Len(s)), sep)

RECURSIVE strip(_)
strip(s) ==
    IF s = <<>> THEN s
    ELSE IF Head(s) = " " THEN strip(Tail(s))
    ELSE IF s[Len(s)] = " " THEN strip(SubSeq(s, 1, Len(s) - 1))
    ELSE s

RECURSIVE DecimalValue(_)
DecimalValue(ds) ==
    IF ds = <<>> THEN 0
    ELSE 10 * DecimalValue(SubSeq(ds, 1, Len(ds) - 1)) + DigitVal(ds[Len(ds)])

\* int(token): surrounding blanks dropped, an optional sign, then one or more
\* decimal digits; anything else raises ValueError
int(token) ==
    LET t == strip(token)
        signed == t # <<>> /\ Head(t) \in {"+", "-"}
        ds == IF signed THEN Tail(t) ELSE t
    IN IF ds = <<>> \/ \E i \in 1..Len(ds) : ds[i] \notin Digits
       THEN [ok |-> FALSE, val |-> 0]
       ELSE [ok |-> TRUE,
             val |-> IF signed /\ Head(t) = "-" THEN 0 - DecimalValue(ds)
                     ELSE DecimalValue(ds)]

\* list(map(int, args.chars.split(',')))
get_chars(chars) ==
    LET toks == split(chars, ",")
    IN IF \E i \in 1..Len(toks) : ~int(toks[i]).ok
       THEN [ok |-> FALSE, err |-> "ValueError", chars |-> <<>>]
       ELSE [ok |-> TRUE, err |-> "none",
             chars |-> [i \in 1..Len(toks) |-> int(toks[i]).val]]

(***************************************************************************)
(* Cell reducer.                                                           *)
(***************************************************************************)
\* len(hist) of a mode 'P' image: one bin per palette slot, 16x16 = 256
HistLen == 16 * 16

\* zip(hist, range(len(hist))): the pairs (count, bin index)
zip_range(h) == [i \in 1..Len(h) |-> <<h[i], i - 1>>]

\* the largest count of the pairs
MaxKey(seq) ==
    LET ks == {seq[i][1] : i \in 1..Len(seq)}
    IN IF ks = {} THEN 0 ELSE CHOOSE m \in ks : \A k \in ks : k <= m

RECURSIVE ByKeyDown(_, _)
\* the elements of key k in their original order, then those of key k-1, ...
ByKeyDown(seq, k) ==
    IF k < 0 THEN <<>>
    ELSE SelectSeq(seq, LAMBDA t : t[1] = k) \o ByKeyDown(seq, k - 1)

Reverse(seq) == [i \in 1..Len(seq) |-> seq[Len(seq) + 1 - i]]

RECURSIVE ByKeyUp(_, _, _)
ByKeyUp(seq, k, top) ==
    IF k > top THEN <<>>
    ELSE SelectSeq(seq, LAMBDA t : t[1] = k) \o ByKeyUp(seq, k + 1, top)

\* an ascending stable sort read backwards: equal counts come out with the
\* higher bin first
sorted_reverse_mut(seq) == Reverse(ByKeyUp(seq, 0, MaxKey(seq)))
\* sorted(seq, key=lambda tup: tup[0], reverse=True): descending by count;
\* Python's sort is stable and reverse=True keeps the original order of
\* elements with equal keys
sorted_reverse(seq) == ByKeyDown(seq, MaxKey(seq))

\* round(p/q) for an exactly known p/q >= 0: round half to even
RoundHalfEven(p, q) ==
    LET k == p \div q
        r == p % q
    IN IF 2 * r < q THEN k
       ELSE IF 2 * r > q THEN k + 1
       ELSE IF k % 2 = 0 THEN k ELSE k + 1

RECURSIVE LeadingShift(_, _)
\* the z with 1/2 <= 2^z * w/t < 1, for 0 < w < t
LeadingShift(w, t) == IF 2 * w >= t THEN 0 ELSE 1 + LeadingShift(2 * w, t)

RECURSIVE Rem53(_, _, _)
\* the remainder left after i more binary digits of r/t
Rem53(r, t, i) == IF i = 0 THEN r ELSE Rem53((2 * r) % t, t, i - 1)

RECURSIVE Log2Floor(_)
Log2Floor(k) == IF k <= 1 THEN 0 ELSE 1 + Log2Floor(k \div 2)

\* round(fl(fl(w/t) * m)) when w*m/t is exactly k + 1/2 and 0 < w < t:
\* fl(w/t) keeps 53 binary digits, rounded to nearest; the product is
\* rounded to the nearest double around k + 1/2, and moves off k + 1/2 when
\* m times the division's error exceeds half the spacing of the doubles there
round_at_half(w, t, m, k) ==
    LET z == LeadingShift(w, t)
        r == Rem53(w * Pow2(z), t, 53)
        \* k + 1/2 lies in [2^e, 2^(e+1)); scale is 2^(e+z+2)
        scale == IF k = 0 THEN Pow2(z + 1) ELSE Pow2(Log2Floor(k) + z + 2)
        even == IF k % 2 = 0 THEN k ELSE k + 1
    IN IF r = 0 THEN even
       ELSE IF 2 * r > t
            THEN \* fl(w/t) is above w/t by (t-r)/t units in the last place
                 IF 4 * m * (t - r) > scale * t THEN k + 1 ELSE even
            ELSE \* fl(w/t) is below w/t by r/t units in the last place; below
                 \* a power of two the doubles are twice as dense
                 IF 4 * m * r > (IF k = 0 THEN scale \div 2 ELSE scale) * t
                 THEN k ELSE even

\* round((w / (w + s)) * m) in IEEE doubles, for w + s > 0 and m >= 0.  Away
\* from an exact half the double result rounds as the exact quotient does
\* (the exact value is at least 1/(2(w+s)) from any half, the double
\* arithmetic is within 2^-51 of it).
round_ratio_times(w, s, m) ==
    LET t == w + s
    IN IF 2 * ((w * m) % t) = t /\ w < t
       THEN round_at_half(w, t, m, (w * m) \div t)
       ELSE RoundHalfEven(w * m, t)

winner_char_index_mut(winner, second, n) ==
    round_ratio_times(second[1], winner[1], n - 1)
\* winner_ratio = winner[0] / (winner[0] + second[0])
\* winner_char_index = round(winner_ratio*(len(mzx_chars)-1))
winner_char_index(winner, second, n) ==
    round_ratio_times(winner[1], second[1], n - 1)

color_byte_mut(winner, second) == (winner[2] % 16) + ((winner[2] % 16) * 16)
\* color = winner_col + (second_col * 16)
color_byte(winner, second) == (winner[2] % 16) + ((second[2] % 16) * 16)

NoFrame == [winner |-> <<0, 0>>, second |-> <<0, 0>>, index |-> 0,
            char |-> 0, color |-> 0, err |-> "not called"]

\* the locals of one call, and err = "none" when it returns (char, color)
rank_histogram_to_col_and_char(h, pal, chars) ==
    LET ranking == sorted_reverse(zip_range(h))
        winner == ranking[1]
        second == ranking[2]
    IN IF winner[1] + second[1] = 0
       THEN [NoFrame EXCEPT !.winner = winner, !.second = second,
                            !.err = "ZeroDivisionError"]
       ELSE LET idx == winner_char_index(winner, second, Len(chars))
            IN [winner |-> winner, second |-> second, index |-> idx,
                char |-> IF idx + 1 \in 1..Len(chars) THEN chars[idx + 1] ELSE 0,
                color |-> color_byte(winner, second),
                err |-> IF idx + 1 \in 1..Len(chars) THEN "none" ELSE "IndexError"]

(***************************************************************************)
(* Image: the quantized image is its size and its pixels, row by row.      *)
(***************************************************************************)
NoImage == [w |-> 0, h |-> 0, px |-> <<>>]

\* newim.crop((lx, uy, rx, dy)): the pixels of the box, row by row
crop(im, lx, uy, rx, dy) ==
    LET bw == rx - lx
        bh == dy - uy
    IN [i \in 1..(bw * bh) |->
          im.px[(uy + ((i - 1) \div bw)) * im.w + lx + ((i - 1) % bw) + 1]]

\* subim.histogram(): for every palette index, how many pixels hold it
histogram(pixels) ==
    [b \in 1..HistLen |-> Cardinality({i \in 1..Len(pixels) : pixels[i] = b - 1})]

\* lx, uy, rx, dy of the cell at column x, row y
cell_box(a, x, y) ==
    [lx |-> x * a.char_width, uy |-> y * a.char_height,
     rx |-> x * a.char_width + a.char_width,
     dy |-> y * a.char_height + a.char_height]

cell_hist(a, im, x, y) ==
    LET b == cell_box(a, x, y) IN histogram(crop(im, b.lx, b.uy, b.rx, b.dy))

(***************************************************************************)
(* MZM file.                                                               *)
(***************************************************************************)
\* struct.pack('<ccccHHIBBBBBxxx', b'M', b'Z', b'M', b'3', width, height,
\*             0, 0, 1, 0, 0x5c, 2)
header(width, height) ==
    <<77, 90, 77, 51,
      width % 256, width \div 256, height % 256, height \div 256,
      0, 0, 0, 0, 0, 1, 0, 92, 2, 0, 0, 0>>

\* [b for pair in layer for b in pair]
file_bytes(lay) == Flatten(lay)

(***************************************************************************)
(* Inputs.                                                                 *)
(***************************************************************************)
\* the default of --chars: '176,177,178,219'
DEFAULT_CHARS ==
    <<"1", "7", "6", ",", "1", "7", "7", ",", "1", "7", "8", ",", "2", "1", "9">>

\* the --chars strings tried: the default, "1", "0,256", "a", "1,,2", " 7,+8"
CharsArgs ==
    {DEFAULT_CHARS, <<"1">>, <<"0", ",", "2", "5", "6">>, <<"a">>,
     <<"1", ",", ",", "2">>, <<" ", "7", ",", "+", "8">>}

\* the first n bytes of a palette file
PaletteFileBytes(n) == [i \in 1..n |-> (i * 5) % 64]

\* sizes of the palette files tried
PaletteLens == {0, 30, 47, 48}

\* --palette: not given, a missing file, or a file of one of the sizes
PaletteArgs ==
    {[given |-> FALSE, exists |-> FALSE, bytes |-> <<>>],
     [given |-> TRUE, exists |-> FALSE, bytes |-> <<>>]}
    \cup {[given |-> TRUE, exists |-> TRUE, bytes |-> PaletteFileBytes(n)] :
            n \in PaletteLens}

DefaultArgs ==
    [width |-> 80, height |-> 25, char_width |-> 8, char_height |-> 14,
     palette |-> [given |-> FALSE, exists |-> FALSE, bytes |-> <<>>],
     chars |-> DEFAULT_CHARS]

ArgsSet ==
    {a \in [width : 0..MaxGrid, height : 0..MaxGrid,
            char_width : 0..MaxCell, char_height : 0..MaxCell,
            palette : PaletteArgs, chars : CharsArgs] :
       a.width * a.height * a.char_width * a.char_height <= MaxPixels}

\* what the quantizer may put in a pixel: slot i of the i-th copy of the palette
PixelValues == {17 * i : i \in 0..MaxSlot}

NoFile == [state |-> "absent", bytes |-> <<>>]

Blank ==
    /\ mzx_pal = <<>> /\ pil_pal = <<>> /\ mzx_chars = <<>> /\ table = <<>>
    /\ newim = NoImage /\ layer = <<>> /\ cx = 0 /\ cy = 0
    /\ hist = <<>> /\ frame = NoFrame /\ out = NoFile /\ err = "none"

Init ==
    /\ pc = "get_palette"
    /\ args \in ArgsSet
    /\ Blank

Raise(e) == pc' = "error" /\ err' = e

(***************************************************************************)
(* main, step by step.                                                     *)
(***************************************************************************)
get_palette ==
    /\ pc = "get_palette"
    /\ \/ /\ ~args.palette.given
          /\ mzx_pal' = DEFAULT_PALETTE
          /\ pc' = "make_8bit_palette"
          /\ err' = err
       \/ /\ args.palette.given /\ ~args.palette.exists
          /\ Raise("FileNotFoundError")
          /\ mzx_pal' = mzx_pal
       \/ /\ args.palette.given /\ args.palette.exists
          /\ palette_of_bytes(read48(args.palette.bytes)).ok
          /\ mzx_pal' = palette_of_bytes(read48(args.palette.bytes)).pal
          /\ pc' = "make_8bit_palette"
          /\ err' = err
       \/ /\ args.palette.given /\ args.palette.exists
          /\ ~palette_of_bytes(read48(args.palette.bytes)).ok
          /\ Raise(palette_of_bytes(read48(args.palette.bytes)).err)
          /\ mzx_pal' = mzx_pal
    /\ UNCHANGED <<args, pil_pal, mzx_chars, table, newim, layer, cx, cy,
                   hist, frame, out>>

make_8bit_palette_step ==
    /\ pc = "make_8bit_palette"
    /\ pil_pal' = make_8bit_palette(mzx_pal)
    /\ pc' = "get_chars"
    /\ UNCHANGED <<args, mzx_pal, mzx_chars, table, newim, layer, cx, cy,
                   hist, frame, out, err>>

get_chars_step ==
    /\ pc = "get_chars"
    /\ \/ /\ get_chars(args.chars).ok
          /\ mzx_chars' = get_chars(args.chars).chars
          /\ pc' = "open_image"
          /\ err' = err
       \/ /\ ~get_chars(args.chars).ok
          /\ Raise(get_chars(args.chars).err)
          /\ mzx_chars' = mzx_chars
    /\ UNCHANGED <<args, mzx_pal, pil_pal, table, newim, layer, cx, cy,
                   hist, frame, out>>

\* Image.open(args.input): the decoder opens the file or raises
open_image ==
    /\ pc = "open_image"
    /\ \/ pc' = "resize" /\ err' = err
       \/ Raise("UnidentifiedImageError")
    /\ UNCHANGED <<args, mzx_pal, pil_pal, mzx_chars, table, newim, layer,
                   cx, cy, hist, frame, out>>

\* im2 = im.resize((width*char_width, height*char_height)).  The source
\* checks no size.  For a size below 1 the outcome is the imaging library's:
\* Pillow's resize raises ValueError ("height and width must be > 0"), and
\* returns a copy when the image already has the size asked for (mad_science
\* handed an image with no pixels); both outcomes are kept.
resize ==
    /\ pc = "resize"
    /\ \/ /\ args.width * args.char_width >= 1
          /\ args.height * args.char_height >= 1
          /\ pc' = "quantize" /\ err' = err
       \/ /\ args.width * args.char_width < 1 \/ args.height * args.char_height < 1
          /\ Raise("ValueError")
       \/ /\ args.width * args.char_width < 1 \/ args.height * args.char_height < 1
          /\ pc' = "quantize" /\ err' = err
    /\ UNCHANGED <<args, mzx_pal, pil_pal, mzx_chars, table, newim, layer,
                   cx, cy, hist, frame, out>>

\* pp.putpalette(pil_pal * 16); newim = quantize_image(im2, pp, 'dither'):
\* every pixel becomes an index of the table, chosen by the quantizer
quantize ==
    /\ pc = "quantize"
    /\ table' = putpalette_data(pil_pal)
    /\ \E px \in [1..(args.width * args.char_width * args.height * args.char_height)
                    -> PixelValues] :
          newim' = [w |-> args.width * args.char_width,
                    h |-> args.height * args.char_height, px |-> px]
    /\ layer' = <<>>
    /\ cx' = 0 /\ cy' = 0
    /\ pc' = "cells"
    /\ UNCHANGED <<args, mzx_pal, pil_pal, mzx_chars, hist, frame, out, err>>

\* the loops are over: no row is left, or the rows are empty
LoopDone == cy >= args.height \/ args.width <= 0

\* for y in range(height): for x in range(width): the cell after (cx, cy)
next_cell == IF cx + 1 < args.width THEN <<cx + 1, cy>> ELSE <<0, cy + 1>>

layer_append_mut(lay, pair) == <<pair>> \o lay
\* layer.append(pair)
layer_append(lay, pair) == Append(lay, pair)

\* one pass of the inner loop body
mad_science_cell ==
    /\ pc = "cells"
    /\ ~LoopDone
    /\ hist' = cell_hist(args, newim, cx, cy)
    /\ frame' = rank_histogram_to_col_and_char(hist', mzx_pal, mzx_chars)
    /\ \/ /\ frame'.err = "none"
          /\ layer' = layer_append(layer, <<frame'.char, frame'.color>>)
          /\ cx' = next_cell[1] /\ cy' = next_cell[2]
          /\ pc' = pc /\ err' = err
       \/ /\ frame'.err # "none"
          /\ Raise(frame'.err)
          /\ UNCHANGED <<layer, cx, cy>>
    /\ UNCHANGED <<args, mzx_pal, pil_pal, mzx_chars, table, newim, out>>

\* return layer, and the with block of main closes the input image
mad_science_return ==
    /\ pc = "cells"
    /\ LoopDone
    /\ pc' = "write_mzm"
    /\ UNCHANGED <<args, mzx_pal, pil_pal, mzx_chars, table, newim, layer,
                   cx, cy, hist, frame, out, err>>

\* write_mzm up to the with statement: the header is packed ('H' takes
\* 0..65535) and bytearray() takes only values in 0..255
write_pack ==
    /\ pc = "write_mzm"
    /\ \/ /\ args.width \in 0..65535 /\ args.height \in 0..65535
          /\ \A i \in 1..Len(file_bytes(layer)) : file_bytes(layer)[i] \in 0..255
          /\ pc' = "open_output" /\ err' = err
       \/ /\ args.width \in 0..65535 /\ args.height \in 0..65535
          /\ \E i \in 1..Len(file_bytes(layer)) : file_bytes(layer)[i] \notin 0..255
          /\ Raise("ValueError")
    /\ UNCHANGED <<args, mzx_pal, pil_pal, mzx_chars, table, newim, layer,
                   cx, cy, hist, frame, out>>

\* with open(args.output, mode="wb") as f: the file is created or emptied,
\* or open raises
open_output ==
    /\ pc = "open_output"
    /\ \/ /\ out' = [state |-> "open", bytes |-> <<>>]
          /\ pc' = "write_header" /\ err' = err
       \/ /\ Raise("OSError")
          /\ out' = out
    /\ UNCHANGED <<args, mzx_pal, pil_pal, mzx_chars, table, newim, layer,
                   cx, cy, hist, frame>>

\* leaving the with block, normally or by an exception, closes the file
with_exit_mut(f) == f
with_exit(f) == [f EXCEPT !.state = "closed"]

\* f.write(header)
write_header ==
    /\ pc = "write_header"
    /\ \/ /\ out' = [out EXCEPT !.bytes = @ \o header(args.width, args.height)]
          /\ pc' = "write_body" /\ err' = err
       \/ /\ out' = with_exit(out)
          /\ Raise("OSError")
    /\ UNCHANGED <<args, mzx_pal, pil_pal, mzx_chars, table, newim, layer,
                   cx, cy, hist, frame>>

\* f.write(file_bytes)
write_body ==
    /\ pc = "write_body"
    /\ \/ /\ out' = [out EXCEPT !.bytes = @ \o file_bytes(layer)]
          /\ pc' = "with_exit" /\ err' = err
       \/ /\ out' = with_exit(out)
          /\ Raise("OSError")
    /\ UNCHANGED <<args, mzx_pal, pil_pal, mzx_chars, table, newim, layer,
                   cx, cy, hist, frame>>

close_output ==
    /\ pc = "with_exit"
    /\ out' = with_exit(out)
    /\ pc' = "log_done"
    /\ UNCHANGED <<args, mzx_pal, pil_pal, mzx_chars, table, newim, layer,
                   cx, cy, hist, frame, err>>

\* logging.info('done'); return None
log_done ==
    /\ pc = "log_done"
    /\ pc' = "done"
    /\ UNCHANGED <<args, mzx_pal, pil_pal, mzx_chars, table, newim, layer,
                   cx, cy, hist, frame, out, err>>

Next ==
    \/ get_palette
    \/ make_8bit_palette_step
    \/ get_chars_step
    \/ open_image
    \/ resize
    \/ quantize
    \/ mad_science_cell
    \/ mad_science_return
    \/ write_pack
    \/ open_output
    \/ write_header
    \/ write_body
    \/ close_output
    \/ log_done

Spec == Init /\ [][Next]_vars

(***************************************************************************)
(* The cell reducer on its own: every histogram and gradient of the        *)
(* bounded sets is handed to rank_histogram_to_col_and_char.               *)
(***************************************************************************)
\* the histogram with c pixels in bin b, and the bins it is mixed from
UniformHist(b, c) == [i \in 1..HistLen |-> IF i - 1 = b THEN c ELSE 0]

SampleBins == <<0, 1, 17>>

MixedHist(c1, c2, c3) ==
    [i \in 1..HistLen |->
       IF i - 1 = SampleBins[1] THEN c1
       ELSE IF i - 1 = SampleBins[2] THEN c2
       ELSE IF i - 1 = SampleBins[3] THEN c3 ELSE 0]

RankHists ==
    {UniformHist(b, c) : b \in 0..(HistLen - 1), c \in 1..MaxCount}
    \cup {MixedHist(c1, c2, c3) : c1 \in 0..MaxCount, c2 \in 0..MaxCount,
                                  c3 \in 0..MaxCount}

DefaultGradient == get_chars(DEFAULT_CHARS).chars

\* the first n glyphs of 176,177,178,219,220,221,...
Gradient(n) ==
    [i \in 1..n |-> IF i <= Len(DefaultGradient) THEN DefaultGradient[i]
                    ELSE DefaultGradient[Len(DefaultGradient)]
                         + (i - Len(DefaultGradient))]

InitRank ==
    /\ pc = "rank"
    /\ args = DefaultArgs
    /\ mzx_pal = DEFAULT_PALETTE /\ pil_pal = <<>> /\ table = <<>>
    /\ newim = NoImage /\ layer = <<>> /\ cx = 0 /\ cy = 0
    /\ frame = NoFrame /\ out = NoFile /\ err = "none"
    /\ hist \in RankHists
    /\ mzx_chars \in {Gradient(n) : n \in 1..MaxGradLen}

Reduce ==
    /\ pc = "rank"
    /\ frame' = rank_histogram_to_col_and_char(hist, mzx_pal, mzx_chars)
    /\ pc' = "ranked"
    /\ UNCHANGED <<args, mzx_pal, pil_pal, mzx_chars, table, newim, layer,
                   cx, cy, hist, out, err>>

NextRank == Reduce

SpecRank == InitRank /\ [][NextRank]_vars

(***************************************************************************)
(* The palette loader on its own: the default palette, and palette files   *)
(* of every size up to 49 bytes and with every byte value in one channel.  *)
(***************************************************************************)
\* a 48-byte file: the default palette with byte v at position p
OneByteFile(p, v) ==
    LET flat == Flatten(DEFAULT_PALETTE)
    IN [i \in 1..48 |-> IF i = p THEN v ELSE flat[i]]

PalArgs ==
    PaletteArgs
    \cup {[given |-> TRUE, exists |-> TRUE, bytes |-> PaletteFileBytes(n)] :
            n \in 0..49}
    \cup {[given |-> TRUE, exists |-> TRUE, bytes |-> OneByteFile(p, v)] :
            p \in {1, 2, 24, 48}, v \in 0..255}

InitPal ==
    /\ pc = "get_palette"
    /\ args \in {[DefaultArgs EXCEPT !.palette = f] : f \in PalArgs}
    /\ Blank

NextPal == get_palette \/ make_8bit_palette_step

SpecPal == InitPal /\ [][NextPal]_vars

(***************************************************************************)
(* Properties.                                                             *)
(***************************************************************************)
\* the histogram counts at least one pixel
HasPixels(h) == \E i \in 1..Len(h) : h[i] > 0

\* the whole count of h sits in bin b
IsUniform(h, b) == h[b + 1] > 0 /\ \A i \in 1..Len(h) : i # b + 1 => h[i] = 0

Ranked == pc = "ranked"

\* C1: for every histogram with a positive total, winner is the
\* lowest-indexed bin among those of the highest count, and second is the
\* lowest-indexed bin among those of the highest count once winner is
\* removed; so of two bins tied at the top the lower index is winner.
C1_TieBreakLowerIndex ==
    (Ranked /\ HasPixels(hist)) =>
        LET w == frame.winner
            s == frame.second
        IN /\ w[2] \in 0..(HistLen - 1) /\ w[1] = hist[w[2] + 1]
           /\ \A b \in 0..(HistLen - 1) :
                 \/ hist[b + 1] < w[1]
                 \/ hist[b + 1] = w[1] /\ b >= w[2]
           /\ s[2] \in 0..(HistLen - 1) /\ s[2] # w[2] /\ s[1] = hist[s[2] + 1]
           /\ \A b \in (0..(HistLen - 1)) \ {w[2]} :
                 \/ hist[b + 1] < s[1]
                 \/ hist[b + 1] = s[1] /\ b >= s[2]

\* bins 1 and 17 share the top count, above bin 0
C1_Witness ==
    /\ Ranked
    /\ hist[2] > 0 /\ hist[2] = hist[18] /\ hist[1] < hist[2]
    /\ frame.winner[2] = 1 /\ frame.second[2] = 17

\* C2 as stated: a uniform cell in bin b with the default gradient gives
\* glyph 219 and color = idx + idx*16, idx = b mod 16.
C2_UniformBothNibbles ==
    \A b \in 0..(HistLen - 1) :
        (Ranked /\ IsUniform(hist, b) /\ mzx_chars = DefaultGradient) =>
            /\ frame.err = "none"
            /\ frame.char = 219
            /\ frame.color = (b % 16) + (b % 16) * 16

\* C2 amended: a uniform cell in bin b with the default gradient gives glyph
\* 219 (index 3, ratio 1); the low nibble of color is b mod 16 and the high
\* nibble is the colour of the lowest-indexed other bin, which is empty:
\* bin 0, or bin 1 when b = 0.
C2_UniformCell ==
    \A b \in 0..(HistLen - 1) :
        (Ranked /\ IsUniform(hist, b) /\ mzx_chars = DefaultGradient) =>
            /\ frame.err = "none"
            /\ frame.index = 3 /\ frame.char = 219
            /\ frame.second = <<0, IF b = 0 THEN 1 ELSE 0>>
            /\ frame.color = (b % 16) + (IF b = 0 THEN 16 ELSE 0)

\* the uniform cell of bin 37 (colour 5) came out as 219 with color 5
C2_Witness ==
    /\ Ranked /\ IsUniform(hist, 37) /\ mzx_chars = DefaultGradient
    /\ frame.char = 219 /\ frame.color = 5

\* C10: for every histogram with a positive total and every gradient of
\* length n >= 1, winner's count is at least second's, so the glyph index
\* lies between round((n-1)/2) and n-1: it indexes the gradient without
\* clamping, and with the default gradient only 178 or 219 comes out.
C10_IndexInUpperHalf ==
    (Ranked /\ HasPixels(hist)) =>
        LET n == Len(mzx_chars)
        IN /\ frame.err = "none"
           /\ frame.winner[1] >= frame.second[1]
           /\ frame.index >= RoundHalfEven(n - 1, 2)
           /\ frame.index <= n - 1
           /\ frame.char = mzx_chars[frame.index + 1]
           /\ mzx_chars = DefaultGradient => frame.char \in {178, 219}

\* an even split under the default gradient: ratio 1/2, index round(1.5) = 2
C10_Witness ==
    /\ Ranked /\ mzx_chars = DefaultGradient
    /\ frame.winner[1] = frame.second[1] /\ frame.second[1] > 0
    /\ frame.index = 2 /\ frame.char = 178

\* C3: every channel v of the 16 colours becomes v*4 + v div 16, in the same
\* order (48 values); for v in 0..63 the result lies in 0..255, 0 gives 0
\* and 63 gives 255.
C3_Expand ==
    pc = "get_chars" =>
        /\ Len(mzx_pal) = 16
        /\ Len(pil_pal) = 48
        /\ \A c \in 1..16 : \A j \in 1..3 :
              LET v == mzx_pal[c][j]
                  e == pil_pal[3 * (c - 1) + j]
              IN /\ e = v * 4 + (v \div 16)
                 /\ v \in 0..63 => e \in 0..255
                 /\ v = 0 => e = 0
                 /\ v = 63 => e = 255

\* a palette file whose first byte is 63 was expanded to 255
C3_Witness ==
    /\ pc = "get_chars" /\ args.palette.given
    /\ mzx_pal[1][1] = 63 /\ pil_pal[1] = 255

\* colour i of a flat list of channels
ColorAt(flat, i) == <<flat[3 * i + 1], flat[3 * i + 2], flat[3 * i + 3]>>

\* C4: the table handed to the quantizer (as it is when quantize is over and
\* no cell is reduced yet) has 256 colours (768 values) and
\* its colour i is its colour i mod 16, which is colour i mod 16 of the
\* expanded palette.
C4_DiffusionTable ==
    (pc = "cells" /\ layer = <<>>) =>
        /\ Len(table) = 768
        /\ \A i \in 0..255 :
              /\ ColorAt(table, i) = ColorAt(table, i % 16)
              /\ ColorAt(table, i) = ColorAt(pil_pal, i % 16)
              /\ \A j \in 1..3 :
                    ColorAt(table, i)[j] = expand(mzx_pal[(i % 16) + 1][j])

\* the table was built from a palette file
C4_Witness ==
    /\ pc = "cells" /\ args.palette.given
    /\ ColorAt(table, 17) = ColorAt(pil_pal, 1)
    /\ ColorAt(table, 17) # ColorAt(table, 16)

\* the (char, color) pair the reducer gives for the cell at column x, row y
CellPair(x, y) ==
    CHOOSE p \in {<<rank_histogram_to_col_and_char(h, mzx_pal, mzx_chars).char,
                    rank_histogram_to_col_and_char(h, mzx_pal, mzx_chars).color>> :
                    h \in {cell_hist(args, newim, x, y)}} : TRUE

\* C5: for grid_w, grid_h >= 1 the Layer returned by mad_science holds
\* grid_w*grid_h pairs, the pair at position y*grid_w + x being the reduction
\* of the cell at column x, row y; and a completed write_mzm has emitted
\* 20 + 2*grid_w*grid_h bytes: the 20-byte header, then for each pair in
\* Layer order its glyph byte and its color byte, unchanged.
C5_LayerAndFile ==
    (args.width >= 1 /\ args.height >= 1) =>
        /\ pc = "write_mzm" =>
              /\ Len(layer) = args.width * args.height
              /\ \A y \in 0..(args.height - 1) : \A x \in 0..(args.width - 1) :
                    layer[y * args.width + x + 1] = CellPair(x, y)
        /\ pc \in {"with_exit", "log_done", "done"} =>
              /\ Len(out.bytes) = 20 + 2 * args.width * args.height
              /\ SubSeq(out.bytes, 1, 8) =
                    <<77, 90, 77, 51, args.width % 256, args.width \div 256,
                      args.height % 256, args.height \div 256>>
              /\ SubSeq(out.bytes, 9, 20) = <<0, 0, 0, 0, 0, 1, 0, 92, 2, 0, 0, 0>>
              /\ \A i \in 1..(args.width * args.height) :
                    /\ out.bytes[20 + 2 * i - 1] = layer[i][1]
                    /\ out.bytes[20 + 2 * i] = layer[i][2]

\* a 2x2 grid whose cells (1,0) and (0,1) differ was written: 28 bytes
C5_Witness ==
    /\ pc = "done"
    /\ args.width = 2 /\ args.height = 2
    /\ layer[2] # layer[3]
    /\ Len(out.bytes) = 28

\* --palette names a file of fewer than 48 bytes
ShortPalette ==
    args.palette.given /\ args.palette.exists /\ Len(args.palette.bytes) < 48

\* C6: with a palette file of fewer than 48 bytes get_palette raises instead
\* of returning a palette: the run is in the error state as soon as
\* get_palette is over, no palette was returned and the output file is
\* never created or written.
C6_ShortPaletteFails ==
    ShortPalette =>
        /\ pc \in {"get_palette", "error"}
        /\ pc = "error" => err = "IndexError"
        /\ mzx_pal = <<>>
        /\ out = NoFile

\* the run with the 30-byte palette file ended in the error
C6_Witness ==
    /\ ShortPalette /\ Len(args.palette.bytes) = 30
    /\ pc = "error" /\ err = "IndexError"

\* the gradient string has fewer than 2 entries or a non-numeric token
BadGradient(chars) ==
    \/ Len(split(chars, ",")) < 2
    \/ \E i \in 1..Len(split(chars, ",")) : ~int(split(chars, ",")[i]).ok

\* C7 as stated: a gradient with fewer than 2 entries or a non-numeric token
\* fails in get_chars: the run never gets past get_chars with it, and the
\* cell reducer is never called with a single-entry gradient.
C7_SingleEntryRejected ==
    /\ BadGradient(args.chars) =>
          pc \in {"get_palette", "make_8bit_palette", "get_chars", "error"}
    /\ frame.err # "not called" => Len(mzx_chars) >= 2

\* the cell has no pixel
ZeroArea == args.char_width = 0 \/ args.char_height = 0

\* C8 as stated: a zero-area cell configuration is rejected before any cell
\* is reduced, the reducer is never called with a histogram whose total is
\* 0, and its division never has a zero divisor.
C8_ZeroAreaRejected ==
    /\ ZeroArea => frame.err = "not called"
    /\ frame.err # "not called" => HasPixels(hist)
    /\ err # "ZeroDivisionError"

\* positions of main before write_mzm opens the output file
BeforeOpen ==
    {"get_palette", "make_8bit_palette", "get_chars", "open_image", "resize",
     "quantize", "cells", "write_mzm", "open_output"}

\* C9: the output file is opened only after the whole Layer is computed and
\* is closed before the run reports success; a failure of palette loading,
\* gradient parsing, image decoding or cell reduction (any error other than
\* the OSError of open and write) leaves the file unopened, and a failed
\* write leaves the handle closed.
C9_OutputHandle ==
    /\ pc \in BeforeOpen => out = NoFile
    /\ out.state # "absent" =>
          /\ LoopDone
          /\ Len(layer) = args.width * args.height
    /\ pc \in {"log_done", "done"} => out.state = "closed"
    /\ pc = "error" => out.state # "open"
    /\ (pc = "error" /\ err # "OSError") => out = NoFile

\* the write of the body failed after the header: the handle is closed
C9_Witness ==
    /\ pc = "error" /\ err = "OSError"
    /\ out.state = "closed" /\ Len(out.bytes) = 20

====
